---- MODULE Spec2Model ----
(***************************************************************************)
(* Model of scripts/data_comp.py: the APP x Trier reconciliation.          *)
(*                                                                         *)
(* Representation.                                                         *)
(*   - A spreadsheet cell holding an amount is a record                    *)
(*     [kind, chars, num]: kind "text" with the cell's characters, or      *)
(*     kind "num" with the number gspread already numericised.  Amounts    *)
(*     are counted in centavos (1/100 R$); VALUE_TOLERANCE 0.15 is 15.     *)
(*     The arithmetic is exact decimal arithmetic: the IEEE-754 rounding   *)
(*     of Python's float is not modelled, and amount cells carry at most   *)
(*     two fractional digits.  Floats decide as decimals do except for a   *)
(*     difference of exactly the tolerance (100.15 - 100.0 > 0.15 in       *)
(*     floats); the rows below keep clear of it, the one difference of     *)
(*     exactly 0.15 being 0.15 - 0.0, which is exact in floats.            *)
(*   - A "Criado em" cell "dd/mm/YYYY HH:MM:SS" is the tuple <<d,H,M,S>>   *)
(*     (month and year are the same in every cell); a "Hora" cell          *)
(*     "HH:MM:SS" is <<H,M,S>>.  A datetime is a number of seconds.        *)
(*   - The empty string written to a cell of the report is Text(<<>>) for  *)
(*     amount-like fields, <<>> for the timestamp field and "" for the     *)
(*     fields that are always strings.                                     *)
(*   - Strings are written without diacritics ("Cartao", "NAO",            *)
(*     "SEM CORRESPONDENCIA").                                             *)
(***************************************************************************)
EXTENDS Integers, Sequences, FiniteSets, TLC

VARIABLES app, trier, df_app, results, i, pc, err, valueTol, timeTolMin

(* scripts/process_and_upload.py, retry_api_call: its arguments, the index
   of its for loop, the calls of func made so far with what each did, the
   seconds slept, how the function was left, and its position *)
VARIABLES retries, delay, attempt, calls, slept, outcome, rpc

retryVars == <<retries, delay, attempt, calls, slept, outcome, rpc>>

vars == <<app, trier, df_app, results, i, pc, err, valueTol, timeTolMin,
          retryVars>>

(* ------------------------------ CONFIG ------------------------------- *)

VALUE_TOLERANCE == 15

TIME_TOLERANCE_MIN == 5

AllowedPayments == {"PIX", "Cartao"}

(* ------------------------------ bounds ------------------------------- *)

MaxApp == 3

MaxTrier == 2

(* ------------------------------ cells -------------------------------- *)

Text(chars) == [kind |-> "text", chars |-> chars, num |-> 0]

Num(cents) == [kind |-> "num", chars |-> <<>>, num |-> cents]

(* a Python int written to a cell *)
IntCell(n) == [kind |-> "int", chars |-> <<>>, num |-> n]

(* the empty string written to a cell *)
Blank == Text(<<>>)

Abs(x) == IF x < 0 THEN -x ELSE x

Digits == {"0", "1", "2", "3", "4", "5", "6", "7", "8", "9"}

DigitVal(c) ==
    CASE c = "0" -> 0 [] c = "1" -> 1 [] c = "2" -> 2 [] c = "3" -> 3
      [] c = "4" -> 4 [] c = "5" -> 5 [] c = "6" -> 6 [] c = "7" -> 7
      [] c = "8" -> 8 [] c = "9" -> 9

(* str.replace(old, ""), old one character long *)
RECURSIVE RemoveChar(_, _)
RemoveChar(s, c) ==
    IF s = <<>> THEN <<>>
    ELSE IF Head(s) = c THEN RemoveChar(Tail(s), c)
    ELSE <<Head(s)>> \o RemoveChar(Tail(s), c)

(* str.replace("R$", ""): non-overlapping occurrences, left to right *)
RECURSIVE RemoveRS(_)
RemoveRS(s) ==
    IF Len(s) < 2 THEN s
    ELSE IF s[1] = "R" /\ s[2] = "$" THEN RemoveRS(SubSeq(s, 3, Len(s)))
    ELSE <<Head(s)>> \o RemoveRS(Tail(s))

(* str.replace(",", ".") *)
ReplaceComma(s) == [k \in 1..Len(s) |-> IF s[k] = "," THEN "." ELSE s[k]]

(* value of a run of decimal digits *)
RECURSIVE DigitsValue(_)
DigitsValue(s) ==
    IF s = <<>> THEN 0
    ELSE 10 * DigitsValue(SubSeq(s, 1, Len(s) - 1)) + DigitVal(s[Len(s)])

(* float(s) for the decimal literals a currency cell can hold: an optional
   sign, digits, at most one point, at least one digit.  ok = FALSE is the
   ValueError float raises on anything else. *)
FloatOf(s) ==
    LET signed == s # <<>> /\ s[1] \in {"-", "+"}
        body   == IF signed THEN Tail(s) ELSE s
        dots   == {k \in 1..Len(body) : body[k] = "."}
        wellformed ==
            /\ \A k \in 1..Len(body) : body[k] \in Digits \cup {"."}
            /\ Cardinality(dots) <= 1
            /\ \E k \in 1..Len(body) : body[k] \in Digits
        dot    == IF dots = {} THEN Len(body) + 1 ELSE CHOOSE k \in dots : TRUE
        whole  == SubSeq(body, 1, dot - 1)
        frac   == SubSeq(body, dot + 1, Len(body))
        frac2  == IF Len(frac) = 0 THEN 0
                  ELSE IF Len(frac) = 1 THEN 10 * DigitsValue(frac)
                  ELSE DigitsValue(SubSeq(frac, 1, 2))
        mag    == 100 * DigitsValue(whole) + frac2
    IN  IF wellformed
        THEN [ok |-> TRUE, val |-> IF signed /\ s[1] = "-" THEN -mag ELSE mag]
        ELSE [ok |-> FALSE, val |-> 0]

parse_brl_currency(value) ==
    IF value.kind = "num" THEN [ok |-> TRUE, val |-> value.num]
    ELSE IF value.chars = <<>> THEN [ok |-> TRUE, val |-> 0]
    ELSE FloatOf(ReplaceComma(
             RemoveChar(RemoveChar(RemoveRS(value.chars), " "), ".")))

(* datetime.strptime(value, "%d/%m/%Y %H:%M:%S"); ok = FALSE is its
   ValueError *)
parse_app_datetime(value) ==
    IF /\ Len(value) = 4
       /\ value[1] \in 1..31 /\ value[2] \in 0..23
       /\ value[3] \in 0..59 /\ value[4] \in 0..59
    THEN [ok |-> TRUE,
          val |-> value[1] * 86400 + value[2] * 3600 + value[3] * 60 + value[4]]
    ELSE [ok |-> FALSE, val |-> 0]

(* datetime.strptime(hora, "%H:%M:%S").time() combined with the date of
   reference_date *)
parse_trier_time(hora, reference_date) ==
    IF /\ Len(hora) = 3
       /\ hora[1] \in 0..23 /\ hora[2] \in 0..59 /\ hora[3] \in 0..59
    THEN [ok |-> TRUE,
          val |-> (reference_date \div 86400) * 86400
                    + hora[1] * 3600 + hora[2] * 60 + hora[3]]
    ELSE [ok |-> FALSE, val |-> 0]

(* ------------------------------ inputs ------------------------------- *)

Chars100 == <<"1", "0", "0", ",", "0", "0">>

(* rows of the APP worksheet: Filial, Valor, Pagamento, Criado em *)
AppRow(f, v, p, c) == [Filial |-> f, Valor |-> v, Pagamento |-> p, CriadoEm |-> c]

AppRows ==
    { AppRow("01", Text(<<"R", "$", " ">> \o Chars100), "PIX", <<1, 10, 2, 0>>),
      AppRow("01", Text(<<"1", "0", "0", ",", "2", "0">>), "Cartao", <<1, 9, 58, 0>>),
      AppRow("01", Num(10010), "PIX", <<1, 10, 5, 0>>),
      AppRow("01", Text(Chars100), "PIX", <<1, 10, 5, 1>>),
      AppRow("02", Text(<<"a", "b", "c">>), "Cartao", <<1, 10, 0, 0>>),
      AppRow("01", Text(Chars100), "Dinheiro", <<1, 10, 0, 0>>),
      AppRow("01", Text(Chars100), "PIX", <<1, 25, 0, 0>>),
      AppRow("02", Text(<<"0", ",", "1", "5">>), "PIX", <<2, 10, 0, 0>>) }

(* rows of the APP_TRIER worksheet: Filial, Num. Venda, Cliente, Hora,
   Total Liquido *)
TrierRow(f, n, c, h, t) ==
    [Filial |-> f, NumVenda |-> n, Cliente |-> c, Hora |-> h, TotalLiquido |-> t]

TrierRows ==
    { TrierRow("01", "V1", "Ana", <<10, 0, 0>>, Text(<<"R", "$", " ">> \o Chars100)),
      TrierRow("02", "V2", "Bruno", <<10, 0, 0>>, Blank),
      TrierRow("01", "V3", "Caio", <<25, 0, 0>>,
               Text(<<"1", ".", "0", "0", "0", ",", "0", "0">>)),
      TrierRow("01", "V4", "Dora", <<10, 0, 0>>, Text(<<"a", "b", "c">>)) }

SeqsUpTo(S, n) == UNION {[1..k -> S] : k \in 0..n}

(* ---------------------------- MAIN LOGIC ----------------------------- *)

(* df_app[df_app["Pagamento"].isin(["PIX", "Cartao"])] *)
FilterPayments(rows) == SelectSeq(rows, LAMBDA r : r.Pagamento \in AllowedPayments)

(* df_app["Criado em"].apply(parse_app_datetime) raises as soon as one row
   of the filtered frame does not parse *)
DatetimesParse(rows) ==
    \A k \in 1..Len(rows) : parse_app_datetime(rows[k].CriadoEm).ok

(* the filtered frame with its APP_DATETIME column *)
WithDatetime(rows) ==
    [k \in 1..Len(rows) |->
        [Filial |-> rows[k].Filial, Valor |-> rows[k].Valor,
         Pagamento |-> rows[k].Pagamento, CriadoEm |-> rows[k].CriadoEm,
         APP_DATETIME |-> parse_app_datetime(rows[k].CriadoEm).val]]

(* df_app[df_app["Filial"] == filial] *)
CandidatesByFilial(df, filial) == SelectSeq(df, LAMBDA r : r.Filial = filial)

(* candidates["Valor"].apply(parse_brl_currency) raises as soon as one
   candidate's amount does not parse *)
ValoresParse(candidates) ==
    \A k \in 1..Len(candidates) : parse_brl_currency(candidates[k].Valor).ok

(* the candidates with the columns APP_VALOR_NUM, VALOR_DIFF, VALOR_DIFF_ABS
   and TIME_DIFF_MIN; the latter is kept in whole seconds (TIME_DIFF_SEC),
   TIME_DIFF_MIN being TIME_DIFF_SEC / 60 *)
ComputeDiffs(candidates, total_liquido, trier_datetime) ==
    [k \in 1..Len(candidates) |->
        LET c == candidates[k]
            v == parse_brl_currency(c.Valor).val
        IN  [Valor |-> c.Valor, Pagamento |-> c.Pagamento, CriadoEm |-> c.CriadoEm,
             VALOR_DIFF |-> v - total_liquido,
             VALOR_DIFF_ABS |-> Abs(v - total_liquido),
             TIME_DIFF_SEC |-> Abs(c.APP_DATETIME - trier_datetime)]]

(* faulty variant: the bound itself excluded *)
WithinTimeToleranceExclusive(time_diff_sec) == time_diff_sec < 60 * timeTolMin

(* candidates["TIME_DIFF_MIN"] <= TIME_TOLERANCE_MIN, on whole seconds *)
WithinTimeTolerance(time_diff_sec) == time_diff_sec <= 60 * timeTolMin

(* faulty variant: the amount tolerance applied as a filter too *)
FilterByValueAndTime(candidates) ==
    SelectSeq(candidates, LAMBDA c : /\ c.VALOR_DIFF_ABS <= valueTol
                                     /\ WithinTimeTolerance(c.TIME_DIFF_SEC))

(* candidates[candidates["TIME_DIFF_MIN"] <= TIME_TOLERANCE_MIN] *)
FilterByTime(candidates) ==
    SelectSeq(candidates, LAMBDA c : WithinTimeTolerance(c.TIME_DIFF_SEC))

(* faulty variant: the sort left out, the first candidate taken *)
FirstPosition(candidates) == {1}

(* faulty variant: the candidates sorted by VALOR_DIFF_ABS *)
ClosestByAmount(candidates) ==
    {k \in 1..Len(candidates) :
        \A j \in 1..Len(candidates) :
            candidates[k].VALOR_DIFF_ABS <= candidates[j].VALOR_DIFF_ABS}

(* candidates.sort_values("TIME_DIFF_MIN").iloc[0]: the positions the sort
   can put first.  The default sort kind (quicksort) is not stable, so among
   rows of equal TIME_DIFF_MIN any one can come first. *)
ClosestPositions(candidates) ==
    {k \in 1..Len(candidates) :
        \A j \in 1..Len(candidates) :
            candidates[k].TIME_DIFF_SEC <= candidates[j].TIME_DIFF_SEC}

(* faulty variant: the tolerance itself excluded *)
classify_status_exclusive(valor_diff_abs) ==
    IF valor_diff_abs = 0 THEN "MATCH"
    ELSE IF valor_diff_abs < valueTol THEN "MATCH (AJUSTE)"
    ELSE "VALOR DIVERGENTE"

classify_status(valor_diff_abs) ==
    IF valor_diff_abs = 0 THEN "MATCH"
    ELSE IF valor_diff_abs <= valueTol THEN "MATCH (AJUSTE)"
    ELSE "VALOR DIVERGENTE"

build_no_match_row(trier_row) ==
    [Filial |-> trier_row.Filial, NumVenda |-> trier_row.NumVenda,
     Cliente |-> trier_row.Cliente, Hora |-> trier_row.Hora,
     TotalLiquido |-> trier_row.TotalLiquido,
     APPValor |-> Blank, APPPagamento |-> "", APPCriadoEm |-> <<>>,
     Diferenca |-> Blank, DiferencaAbsoluta |-> Blank, DiferencaAceita |-> "",
     DiferencaTempoMin |-> Blank, TempoAceito |-> "",
     Status |-> "SEM CORRESPONDENCIA"]

(* the dict appended for a match; round(x, 2) leaves a whole number of
   centavos as it is, int(TIME_DIFF_MIN) truncates to whole minutes *)
build_match_row(trier_row, total_liquido, match) ==
    [Filial |-> trier_row.Filial, NumVenda |-> trier_row.NumVenda,
     Cliente |-> trier_row.Cliente, Hora |-> trier_row.Hora,
     TotalLiquido |-> Num(total_liquido),
     APPValor |-> match.Valor, APPPagamento |-> match.Pagamento,
     APPCriadoEm |-> match.CriadoEm,
     Diferenca |-> Num(match.VALOR_DIFF),
     DiferencaAbsoluta |-> Num(match.VALOR_DIFF_ABS),
     DiferencaAceita |-> IF match.VALOR_DIFF_ABS <= valueTol THEN "SIM" ELSE "NAO",
     DiferencaTempoMin |-> IntCell(match.TIME_DIFF_SEC \div 60),
     TempoAceito |-> "SIM",
     Status |-> classify_status(match.VALOR_DIFF_ABS)]

(* the values one pass of the loop body computes for a row of df_trier *)
TotalOf(trier_row) == parse_brl_currency(trier_row.TotalLiquido)

CandidatesOf(trier_row) == CandidatesByFilial(df_app, trier_row.Filial)

TrierDatetimeOf(trier_row) ==
    parse_trier_time(trier_row.Hora, CandidatesOf(trier_row)[1].APP_DATETIME)

FilteredOf(trier_row) ==
    FilterByTime(ComputeDiffs(CandidatesOf(trier_row), TotalOf(trier_row).val,
                              TrierDatetimeOf(trier_row).val))

(* ------------------------------ actions ------------------------------ *)

(* the APP_TRIER sheet is a sales report: it lists a sale number once *)
DistinctSales(rows) ==
    \A a, b \in 1..Len(rows) : a # b => rows[a].NumVenda # rows[b].NumVenda

(* what a call of func does, and how retry_api_call is left: a returned
   value, or an exception.  kind is "return", or the exception's class;
   has_resp and status are the resp.status of an HttpError; value is the
   returned value or the exception's message *)
Outcome(kind, has_resp, status, value) ==
    [kind |-> kind, has_resp |-> has_resp, status |-> status, value |-> value]

(* retry_api_call has not been left *)
NoRetry == Outcome("none", FALSE, 0, "")

RetryIdle ==
    /\ retries = 0
    /\ delay = 0
    /\ attempt = 0
    /\ calls = <<>>
    /\ slept = 0
    /\ outcome = NoRetry
    /\ rpc = "idle"

Inputs ==
    /\ RetryIdle
    /\ app \in SeqsUpTo(AppRows, MaxApp)
    /\ trier \in {rows \in SeqsUpTo(TrierRows, MaxTrier) : DistinctSales(rows)}
    /\ df_app = <<>>
    /\ results = <<>>
    /\ i = 0
    /\ pc = "load"
    /\ err = ""

Init ==
    /\ Inputs
    /\ valueTol = VALUE_TOLERANCE
    /\ timeTolMin = TIME_TOLERANCE_MIN

(* an uncaught exception leaves reconcile_app_vs_trier: nothing is returned *)
Raise(e) ==
    /\ pc' = "failed"
    /\ err' = e
    /\ UNCHANGED <<app, trier, df_app, results, i, valueTol, timeTolMin,
                   retryVars>>

(* get_all_records() of a worksheet without data rows is [], and
   pd.DataFrame([]) has no columns: df_app["Pagamento"] raises KeyError
   (or, where the empty frame's columns are a RangeIndex, .str raises
   AttributeError one line earlier) *)
LoadAppWithoutRows ==
    /\ pc = "load"
    /\ app = <<>>
    /\ Raise("KeyError")

(* df_trier.columns.str.strip() on a frame without columns: AttributeError
   where pandas gives the empty frame a RangeIndex; elsewhere it passes and
   Load goes on *)
LoadTrierWithoutRows ==
    /\ pc = "load"
    /\ app # <<>>
    /\ trier = <<>>
    /\ Raise("AttributeError")

LoadBadDatetime ==
    /\ pc = "load"
    /\ app # <<>>
    /\ ~DatetimesParse(FilterPayments(app))
    /\ Raise("ValueError: parse_app_datetime")

Load ==
    /\ pc = "load"
    /\ app # <<>>
    /\ DatetimesParse(FilterPayments(app))
    /\ df_app' = WithDatetime(FilterPayments(app))
    /\ i' = 1
    /\ pc' = "loop"
    /\ UNCHANGED <<app, trier, results, err, valueTol, timeTolMin,
                   retryVars>>

InLoop == pc = "loop" /\ i <= Len(trier)

Emit(row) ==
    /\ results' = Append(results, row)
    /\ i' = i + 1
    /\ UNCHANGED <<app, trier, df_app, pc, err, valueTol, timeTolMin,
                   retryVars>>

RowBadTotal ==
    /\ InLoop
    /\ ~TotalOf(trier[i]).ok
    /\ Raise("ValueError: parse_brl_currency")

RowNoFilial ==
    /\ InLoop
    /\ TotalOf(trier[i]).ok
    /\ CandidatesOf(trier[i]) = <<>>
    /\ Emit(build_no_match_row(trier[i]))

RowBadHora ==
    /\ InLoop
    /\ TotalOf(trier[i]).ok
    /\ CandidatesOf(trier[i]) # <<>>
    /\ ~TrierDatetimeOf(trier[i]).ok
    /\ Raise("ValueError: parse_trier_time")

RowBadValor ==
    /\ InLoop
    /\ TotalOf(trier[i]).ok
    /\ CandidatesOf(trier[i]) # <<>>
    /\ TrierDatetimeOf(trier[i]).ok
    /\ ~ValoresParse(CandidatesOf(trier[i]))
    /\ Raise("ValueError: parse_brl_currency")

RowReady ==
    /\ InLoop
    /\ TotalOf(trier[i]).ok
    /\ CandidatesOf(trier[i]) # <<>>
    /\ TrierDatetimeOf(trier[i]).ok
    /\ ValoresParse(CandidatesOf(trier[i]))

RowNoTime ==
    /\ RowReady
    /\ FilteredOf(trier[i]) = <<>>
    /\ Emit(build_no_match_row(trier[i]))

RowMatch ==
    /\ RowReady
    /\ FilteredOf(trier[i]) # <<>>
    /\ \E k \in ClosestPositions(FilteredOf(trier[i])) :
           Emit(build_match_row(trier[i], TotalOf(trier[i]).val,
                                FilteredOf(trier[i])[k]))

Return ==
    /\ pc = "loop"
    /\ i > Len(trier)
    /\ pc' = "done"
    /\ UNCHANGED <<app, trier, df_app, results, i, err, valueTol, timeTolMin,
                   retryVars>>

Next ==
    \/ LoadAppWithoutRows
    \/ LoadTrierWithoutRows
    \/ LoadBadDatetime
    \/ Load
    \/ RowBadTotal
    \/ RowNoFilial
    \/ RowBadHora
    \/ RowBadValor
    \/ RowNoTime
    \/ RowMatch
    \/ Return

Spec == Init /\ [][Next]_vars

(* the run with the tolerances set to other values than the shipped ones *)
ValueTolerances == {0, VALUE_TOLERANCE}

TimeTolerances == {0, TIME_TOLERANCE_MIN}

InitCfg ==
    /\ Inputs
    /\ valueTol \in ValueTolerances
    /\ timeTolMin \in TimeTolerances

SpecCfg == InitCfg /\ [][Next]_vars

(* --------------------------- retry_api_call -------------------------- *)

(* retry_api_call(func, retries=3, delay=2) *)
DefaultRetries == 3

DefaultDelay == 2

MaxRetries == 3

MaxDelay == 2

(* the values func returns: the response of sheet.update, or None *)
Results == {"None", "updatedRange"}

Returned(v) == Outcome("return", FALSE, 0, v)

(* the HTTP statuses of an HttpError raised by func *)
Statuses == {404, 429, 500, 503}

(* an HttpError, with its resp or (has_resp FALSE) without one *)
HttpErrors ==
    {Outcome("HttpError", TRUE, s, "") : s \in Statuses}
        \cup {Outcome("HttpError", FALSE, 0, "")}

(* an exception of func that is not an HttpError *)
OtherErrors == {Outcome("APIError", FALSE, 0, "")}

MaxRetriesError == Outcome("Exception", FALSE, 0, "Max retries reached.")

(* hasattr(error, "resp") and error.resp.status == 500 *)
Is500(error) == error.has_resp /\ error.status = 500

InRangeInclusive(k, n) == k <= n

(* for i in range(retries): the index i is in the range *)
InRange(k, n) == k < n

dataVars == <<app, trier, df_app, results, i, pc, err, valueTol, timeTolMin>>

(* reconcile_app_vs_trier is not running *)
DataIdle ==
    /\ app = <<>>
    /\ trier = <<>>
    /\ df_app = <<>>
    /\ results = <<>>
    /\ i = 0
    /\ pc = "idle"
    /\ err = ""
    /\ valueTol = VALUE_TOLERANCE
    /\ timeTolMin = TIME_TOLERANCE_MIN

(* retry_api_call is entered *)
InitRetry ==
    /\ DataIdle
    /\ retries \in 0..MaxRetries
    /\ delay \in 0..MaxDelay
    /\ attempt = 0
    /\ calls = <<>>
    /\ slept = 0
    /\ outcome = NoRetry
    /\ rpc = "loop"

Iterating == rpc = "loop" /\ InRange(attempt, retries)

(* retry_api_call is left, by return or by an exception *)
Leave(o) ==
    /\ outcome' = o
    /\ rpc' = "done"
    /\ UNCHANGED <<retries, delay, attempt, slept, dataVars>>

(* return func() *)
CallReturns ==
    /\ Iterating
    /\ \E v \in Results :
           /\ calls' = Append(calls, Returned(v))
           /\ Leave(Returned(v))

(* func raises an HttpError of status 500: warning, time.sleep(delay) and
   the next iteration *)
CallFails500 ==
    /\ Iterating
    /\ \E error \in HttpErrors :
           /\ Is500(error)
           /\ calls' = Append(calls, error)
           /\ slept' = slept + delay
           /\ attempt' = attempt + 1
           /\ UNCHANGED <<retries, delay, outcome, rpc, dataVars>>

(* else: raise *)
CallFailsReraised ==
    /\ Iterating
    /\ \E error \in HttpErrors :
           /\ ~Is500(error)
           /\ calls' = Append(calls, error)
           /\ Leave(error)

(* an exception that is not an HttpError is not caught *)
CallFailsUncaught ==
    /\ Iterating
    /\ \E error \in OtherErrors :
           /\ calls' = Append(calls, error)
           /\ Leave(error)

(* the loop is over: raise Exception("Max retries reached.") *)
MaxRetriesReached ==
    /\ rpc = "loop"
    /\ ~InRange(attempt, retries)
    /\ UNCHANGED calls
    /\ Leave(MaxRetriesError)

NextRetry ==
    \/ CallReturns
    \/ CallFails500
    \/ CallFailsReraised
    \/ CallFailsUncaught
    \/ MaxRetriesReached

SpecRetry == InitRetry /\ [][NextRetry]_vars

(* the interpreter runs the one thread on, and a call of func comes back *)
SpecRetryFair == SpecRetry /\ WF_vars(NextRetry)

(* ---------------------------- properties ----------------------------- *)

Unmatched(row) == row.Status = "SEM CORRESPONDENCIA"

Ended == pc \in {"done", "failed"}

(* the summary-side fields of an output row are those of the summary *)
CarriesSummary(row, t) ==
    /\ row.Filial = t.Filial
    /\ row.NumVenda = t.NumVenda
    /\ row.Cliente = t.Cliente
    /\ row.Hora = t.Hora

(* every match-side field of an output row is empty *)
MatchSideEmpty(row) ==
    /\ row.APPValor = Blank
    /\ row.APPPagamento = ""
    /\ row.APPCriadoEm = <<>>
    /\ row.Diferenca = Blank
    /\ row.DiferencaAbsoluta = Blank
    /\ row.DiferencaAceita = ""
    /\ row.DiferencaTempoMin = Blank
    /\ row.TempoAceito = ""

(* time and amount distance of a transaction c of the pool from summary t,
   from the cells of the two sheets *)
TimeDiffOf(t, c) == Abs(c.APP_DATETIME - TrierDatetimeOf(t).val)

AmountDiffOf(t, c) == Abs(parse_brl_currency(c.Valor).val - TotalOf(t).val)

(* positions, among the same-branch transactions of summary t, of those
   within the shipped time tolerance *)
Survivors(t) ==
    LET cands == CandidatesOf(t)
        at == IF cands = <<>> THEN 0 ELSE TrierDatetimeOf(t).val
    IN  {j \in 1..Len(cands) :
            Abs(cands[j].APP_DATETIME - at) <= 60 * TIME_TOLERANCE_MIN}

(* the same, of those at the smallest time distance *)
Tied(t) ==
    LET cands == CandidatesOf(t)
        at == IF cands = <<>> THEN 0 ELSE TrierDatetimeOf(t).val
        S == Survivors(t)
    IN  {j \in S :
            \A m \in S :
                Abs(cands[j].APP_DATETIME - at) <= Abs(cands[m].APP_DATETIME - at)}

(* time and amount distance of the transaction reported in output row k,
   from the cells of that row *)
RowTimeDiff(k) ==
    Abs(parse_app_datetime(results[k].APPCriadoEm).val - TrierDatetimeOf(trier[k]).val)

RowAmountDiff(k) ==
    Abs(parse_brl_currency(results[k].APPValor).val - TotalOf(trier[k]).val)

(* output row k reports the transaction at position j of the candidates *)
Reports(k, j) ==
    LET c == CandidatesOf(trier[k])[j]
    IN  /\ results[k].APPValor = c.Valor
        /\ results[k].APPPagamento = c.Pagamento
        /\ results[k].APPCriadoEm = c.CriadoEm

Rows == 1..Len(results)

MatchedRows == {k \in Rows : ~Unmatched(results[k])}

(* C1: every run ends with exactly one output row per summary row, the k-th
   output row carrying the branch, sale number, customer and time of the
   k-th summary row. *)
C1_OneRowPerSummary ==
    Ended =>
        /\ Len(results) = Len(trier)
        /\ \A k \in Rows : CarriesSummary(results[k], trier[k])

(* C1, for the runs that return: the rows appended so far are those of the
   summaries read so far, in order, and on return none is missing. *)
C1_ReturnedRuns ==
    /\ Len(results) <= Len(trier)
    /\ pc \in {"loop", "failed"} /\ i > 0 => Len(results) = i - 1
    /\ pc = "done" => Len(results) = Len(trier)
    /\ \A k \in Rows : CarriesSummary(results[k], trier[k])

(* C2: no output row reports a transaction whose absolute amount difference
   exceeds VALUE_TOLERANCE; status VALOR DIVERGENTE never appears. *)
C2_ValueFiltered ==
    \A k \in MatchedRows :
        /\ RowAmountDiff(k) <= VALUE_TOLERANCE
        /\ results[k].Status # "VALOR DIVERGENTE"

(* C2, amended: the amount is not a filter.  A summary with a same-branch
   transaction within the time tolerance gets a matched row whatever the
   amounts are, and a matched row has status VALOR DIVERGENTE and
   "Diferenca Aceita" = NAO exactly when the absolute amount difference of
   the reported transaction exceeds VALUE_TOLERANCE. *)
C2_ValueOnlyClassifies ==
    \A k \in Rows :
        /\ (CandidatesOf(trier[k]) # <<>> /\ Survivors(trier[k]) # {})
              => ~Unmatched(results[k])
        /\ ~Unmatched(results[k]) =>
              /\ results[k].Status = "VALOR DIVERGENTE"
                    <=> RowAmountDiff(k) > VALUE_TOLERANCE
              /\ results[k].DiferencaAceita = "NAO"
                    <=> RowAmountDiff(k) > VALUE_TOLERANCE
              /\ results[k].DiferencaAceita \in {"SIM", "NAO"}

(* a summary of 100,00 against a transaction of 100,20 two minutes away is
   reported VALOR DIVERGENTE *)
C2_Witness ==
    \E k \in MatchedRows :
        /\ results[k].Status = "VALOR DIVERGENTE"
        /\ TotalOf(trier[k]).val = 10000
        /\ RowAmountDiff(k) = 20
        /\ RowTimeDiff(k) = 120

(* C3: the time filter is inclusive at the bound.  A same-branch transaction
   exactly TIME_TOLERANCE_MIN minutes from the summary keeps the summary
   matched; when every same-branch transaction is further away, be it by one
   second, the row is SEM CORRESPONDENCIA; the transaction of a matched row
   is at most TIME_TOLERANCE_MIN minutes away. *)
C3_TimeFilterInclusive ==
    \A k \in Rows :
        LET t == trier[k]
            cands == CandidatesOf(t)
        IN  cands # <<>> =>
              /\ (\E j \in 1..Len(cands) :
                      TimeDiffOf(t, cands[j]) = 60 * TIME_TOLERANCE_MIN)
                    => ~Unmatched(results[k])
              /\ (\A j \in 1..Len(cands) :
                      TimeDiffOf(t, cands[j]) > 60 * TIME_TOLERANCE_MIN)
                    => Unmatched(results[k])
              /\ ~Unmatched(results[k])
                    => RowTimeDiff(k) <= 60 * TIME_TOLERANCE_MIN

(* a transaction exactly five minutes away is reported, while another one of
   the same branch, five minutes and one second away, is in the pool *)
C3_Witness ==
    \E k \in MatchedRows :
        /\ RowTimeDiff(k) = 60 * TIME_TOLERANCE_MIN
        /\ \E j \in 1..Len(CandidatesOf(trier[k])) :
              TimeDiffOf(trier[k], CandidatesOf(trier[k])[j])
                = 60 * TIME_TOLERANCE_MIN + 1

(* C4: the transaction of a matched row is one at the smallest time distance
   among the candidates that passed the filter, whatever its amount
   difference. *)
C4_ClosestTimeWins ==
    \A k \in MatchedRows :
        \A j \in Survivors(trier[k]) :
            RowTimeDiff(k) <= TimeDiffOf(trier[k], CandidatesOf(trier[k])[j])

(* the reported transaction is closer in time and further in amount than
   another candidate that passed the filter *)
C4_Witness ==
    \E k \in MatchedRows :
        \E j \in Survivors(trier[k]) :
            LET c == CandidatesOf(trier[k])[j]
            IN  /\ TimeDiffOf(trier[k], c) > RowTimeDiff(k)
                /\ AmountDiffOf(trier[k], c) < RowAmountDiff(k)

(* first position of a non-empty set of positions *)
FirstOf(S) == CHOOSE j \in S : \A m \in S : j <= m

(* C5: when two or more candidates share the smallest time distance, the
   reported one is the one of them with the smallest absolute amount
   difference, the first in input order if these tie too. *)
C5_TieBrokenByAmount ==
    \A k \in MatchedRows :
        LET t == trier[k]
            best == {j \in Tied(t) :
                        \A m \in Tied(t) :
                            AmountDiffOf(t, CandidatesOf(t)[j])
                              <= AmountDiffOf(t, CandidatesOf(t)[m])}
        IN  Cardinality(Tied(t)) >= 2 => Reports(k, FirstOf(best))

(* C5, amended: when two or more candidates share the smallest time
   distance, the reported one is one of them; their amount differences are
   not compared, and which of them is reported is left to the order the
   sort gives to equal keys. *)
C5_TieReportsOneOfTied ==
    \A k \in MatchedRows :
        Cardinality(Tied(trier[k])) >= 2
            => \E j \in Tied(trier[k]) : Reports(k, j)

(* of two candidates at the same, smallest time distance the reported one is
   the first in input order and the further one in amount *)
C5_Witness ==
    \E k \in MatchedRows :
        LET t == trier[k]
        IN  /\ Cardinality(Tied(t)) >= 2
            /\ Reports(k, FirstOf(Tied(t)))
            /\ \E m \in Tied(t) :
                  AmountDiffOf(t, CandidatesOf(t)[m]) < RowAmountDiff(k)

(* C6: the status of a matched row is decided by the absolute amount
   difference of the reported transaction alone: 0 gives MATCH, above 0 and
   up to VALUE_TOLERANCE gives MATCH (AJUSTE), at any time distance; a row
   that reports no transaction has status SEM CORRESPONDENCIA. *)
C6_StatusFromAmount ==
    \A k \in Rows :
        /\ results[k].APPCriadoEm = <<>> => Unmatched(results[k])
        /\ ~Unmatched(results[k]) =>
              /\ RowAmountDiff(k) = 0 => results[k].Status = "MATCH"
              /\ (0 < RowAmountDiff(k) /\ RowAmountDiff(k) <= VALUE_TOLERANCE)
                    => results[k].Status = "MATCH (AJUSTE)"

(* a matched row whose amount difference is the tolerance itself *)
C6_Witness ==
    \E k \in MatchedRows :
        /\ RowAmountDiff(k) = VALUE_TOLERANCE
        /\ results[k].Status = "MATCH (AJUSTE)"

(* every cell of the two sheets parses *)
WellFormedCells ==
    /\ \A j \in 1..Len(app) :
          /\ parse_app_datetime(app[j].CriadoEm).ok
          /\ parse_brl_currency(app[j].Valor).ok
    /\ \A k \in 1..Len(trier) :
          /\ parse_trier_time(trier[k].Hora, 0).ok
          /\ parse_brl_currency(trier[k].TotalLiquido).ok

(* no transaction of the pool has the branch of summary k *)
NoSameBranch(k) ==
    \A j \in 1..Len(app) :
        app[j].Pagamento \in AllowedPayments => app[j].Filial # trier[k].Filial

NoMatchRowOf(row, t) ==
    /\ Unmatched(row)
    /\ CarriesSummary(row, t)
    /\ row.TotalLiquido = t.TotalLiquido
    /\ MatchSideEmpty(row)

(* C7: when no transaction shares the summary's branch, the empty pool
   included, the run does not fail and the summary's row is SEM
   CORRESPONDENCIA with the summary-side fields of the summary and every
   match-side field empty.  Stated for sheets whose cells all parse, so that
   no other failure is counted. *)
C7_NoBranchNoFailure ==
    \A k \in 1..Len(trier) :
        (WellFormedCells /\ NoSameBranch(k)) =>
            /\ pc # "failed"
            /\ k \in Rows => NoMatchRowOf(results[k], trier[k])

(* C7, for an APP sheet that has rows: a summary without same-branch
   transaction that is reached gets the no-match row. *)
C7_WithRows ==
    \A k \in Rows :
        CandidatesOf(trier[k]) = <<>> => NoMatchRowOf(results[k], trier[k])

(* C8: a summary whose time does not parse resolves to a SEM CORRESPONDENCIA
   row and the run goes on: the run never ends at that summary. *)
C8_BadHoraUnmatched ==
    \A k \in 1..Len(trier) :
        ~parse_trier_time(trier[k].Hora, 0).ok =>
            /\ ~(pc = "failed" /\ i = k /\ err = "ValueError: parse_trier_time")
            /\ k \in Rows => Unmatched(results[k])

(* C9: a transaction whose creation timestamp does not parse does not make
   the run over the summaries fail. *)
C9_BadDatetimeSkipped ==
    (/\ trier # <<>>
     /\ \E j \in 1..Len(app) :
           /\ app[j].Pagamento \in AllowedPayments
           /\ ~parse_app_datetime(app[j].CriadoEm).ok)
      => ~(pc = "failed" /\ err = "ValueError: parse_app_datetime")

(* C10: in a run whose amount or time tolerance is not positive, no output
   row is produced. *)
C10_TolerancesValidated ==
    (valueTol <= 0 \/ timeTolMin <= 0) => results = <<>>

(* ------------------------- retry_api_call: C11 ------------------------ *)

Failed500(c) == c.kind = "HttpError" /\ c.has_resp /\ c.status = 500

AllFailed500(n) == \A k \in 1..n : Failed500(calls[k])

LastCall == calls[Len(calls)]

(* how retry_api_call is left after the calls made: with the value the last
   call returned, with the exception the last call raised if that was not
   an HttpError of status 500, and with "Max retries reached." after
   retries calls that all failed with status 500 *)
LeftAsCallsTell ==
    IF calls # <<>> /\ ~Failed500(LastCall)
    THEN outcome = LastCall
    ELSE Len(calls) = retries /\ outcome = MaxRetriesError

C11_RetryContract ==
    /\ Len(calls) <= retries
    /\ AllFailed500(Len(calls) - 1)
    /\ rpc = "loop" => AllFailed500(Len(calls)) /\ outcome = NoRetry
    /\ rpc = "done" => outcome # NoRetry /\ LeftAsCallsTell

(* C11: retry_api_call calls func at most retries times; every call before
   the last one failed with an HttpError of status 500, so nothing is called
   after a call that succeeded or that raised another error; it returns the
   value of the first call that succeeds, re-raises at once an HttpError
   whose status is not 500, raises "Max retries reached." after retries
   failures of status 500 in a row; and it always ends, with func's result
   or with an exception, never without either *)
C11_RetryTerminates == []C11_RetryContract /\ <>(rpc = "done")

(* the call of update_google_sheet, retries and delay at their defaults:
   three failures of status 500, six seconds slept, "Max retries reached." *)
C11_Witness ==
    /\ rpc = "done"
    /\ retries = DefaultRetries
    /\ delay = DefaultDelay
    /\ Len(calls) = DefaultRetries
    /\ AllFailed500(Len(calls))
    /\ slept = DefaultRetries * DefaultDelay
    /\ outcome = MaxRetriesError

====
